---- MODULE Spec2Model ----
(***************************************************************************)
(* Model of src/secure/agent.ts: the conversation store                    *)
(* (createConversationStore: get / add / clear over a Map of arrays) and   *)
(* the provider adapter (createAgent, createAnthropicAgent.chat,           *)
(* createOpenAIAgent.chat).                                                *)
(*                                                                         *)
(* JavaScript arrays are objects: the Map holds references.  The model     *)
(* keeps a heap of arrays (heap) and the Map from user id to a reference   *)
(* (conversations), so that aliasing between the stored array and an array *)
(* a caller got from get() is something the model can show or refute.      *)
(***************************************************************************)
EXTENDS Naturals, Sequences, FiniteSets, TLC

\* ---------------------------------------------------------------- bounds
\* Total number of add calls in a run (more than MAX_HISTORY, so trimming happens).
MaxAdds == 22
\* Total number of clear calls in a run of the store.
MaxClears == 2
\* Where callers keep and mutate the arrays get returned: the number of clear
\* calls and the number of mutations in a run.
MaxAliasClears == 1
MaxMutations == 1
\* Length of the content-block lists of an Anthropic response.
MaxBlocks == 3

\* ------------------------------------------------------- program constants
MAX_HISTORY == 20

UserIds == {1, 2}

\* References to arrays on the heap.  Two can be stored in the Map, two can be
\* held by callers, one is spare for the next allocation.
Refs == {1, 2, 3, 4, 5}
NoEntry == 0

\* The chat invocations of a run.
CallIds == {1, 2}

VARIABLES
    conversations,  \* the Map: user id -> reference of its array, or NoEntry
    heap,           \* reference -> contents of the array (<<>> when not allocated)
    held,           \* user id -> reference the caller got from its last get, or NoEntry
    calls,          \* history: user id -> number of add calls made for it
    added,          \* history: user id -> the messages added since its last clear
    cleared,        \* history: user id -> whether clear was ever called for it
    heldLive,       \* history: user id -> the last get found an entry, not cleared since
    nClears,        \* number of clear calls so far
    nMutations,     \* number of caller mutations so far
    lastOp,         \* history: the last store operation, its user id and result
    config,         \* the configuration createAgent was given, or NoConfig
    agent,          \* the AgentCore createAgent returned, or NoAgent
    pc,             \* chat invocation -> "idle", "awaiting", "resolved", "rejected"
    args,           \* chat invocation -> its messages and systemPrompt
    reply,          \* chat invocation -> how the provider call settled
    outcome,        \* chat invocation -> how the promise chat returned settled
    requests,       \* the requests sent to the providers' SDK clients, in order
    auditLog        \* the records audit.error received, in order

storeVars == <<conversations, heap, held, calls, added, cleared, heldLive,
               nClears, nMutations, lastOp>>

agentVars == <<config, agent, pc, args, reply, outcome, requests, auditLog>>

vars == <<storeVars, agentVars>>

\* ------------------------------------------------------------ JS arrays
Min(a, b) == IF a < b THEN a ELSE b

\* Array.prototype.push
Push(s, m) == Append(s, m)

\* Array.prototype.splice(start, deleteCount), start 0-based, on the array itself.
Splice(s, start, deleteCount) ==
    SubSeq(s, 1, start) \o SubSeq(s, start + deleteCount + 1, Len(s))

\* The last n elements of s (all of s when it is shorter).
LastN(s, n) == SubSeq(s, Len(s) - Min(n, Len(s)) + 1, Len(s))

\* ------------------------------------------------------------ the heap
InUse(conv, hld) == {conv[u] : u \in UserIds} \cup {hld[u] : u \in UserIds}

\* A freshly allocated array "[]": a reference nothing refers to.
FreshRef(conv, hld) ==
    CHOOSE r \in Refs \ InUse(conv, hld) :
        \A q \in Refs \ InUse(conv, hld) : r <= q

\* Arrays nothing refers to any more are collected.
Collect(h, conv, hld) ==
    [r \in Refs |-> IF r \in InUse(conv, hld) THEN h[r] ELSE <<>>]

\* ------------------------------------------------------------ the store
\* What get(userId) returns, as a value: conversations.get(userId) || [].
Get(u) == IF conversations[u] = NoEntry THEN <<>> ELSE heap[conversations[u]]

\* The k-th message a caller adds for user u.  add never inspects a message, so
\* the messages are made pairwise distinct: every position of every history can
\* be told from every other.
NextMessage(u) ==
    [role |-> IF calls[u] % 2 = 0 THEN "user" ELSE "assistant",
     content |-> <<u, calls[u] + 1>>]

\* Variant of GetRef: get returns a copy, return [...history].
GetRefCopy(u) == FreshRef(conversations, [held EXCEPT ![u] = NoEntry])

\* The reference get(userId) returns: the stored array, or a new empty array
\* that is not stored.
GetRef(u) ==
    IF conversations[u] # NoEntry THEN conversations[u]
    ELSE FreshRef(conversations, [held EXCEPT ![u] = NoEntry])

\* keep: whether the caller keeps the returned array (in a variable of its own)
\* or only reads it.
GetCall(u, keep) ==
    /\ LET r == GetRef(u)
           hld == IF keep THEN [held EXCEPT ![u] = r] ELSE held
       IN  /\ held' = hld
           /\ heap' = Collect([heap EXCEPT ![r] = Get(u)], conversations, hld)
           /\ heldLive' = IF keep
                           THEN [heldLive EXCEPT ![u] = (conversations[u] # NoEntry)]
                           ELSE heldLive
           /\ lastOp' = [op |-> "get", userId |-> u, result |-> heap'[r]]
    /\ UNCHANGED <<conversations, calls, added, cleared, nClears, nMutations>>
    /\ UNCHANGED agentVars

\* Variant of HistoryRef: add starts from a new array whatever is stored.
HistoryRefFresh(u) == FreshRef(conversations, held)

\* The array add works on: conversations.get(userId) || [].
HistoryRef(u) ==
    IF conversations[u] # NoEntry THEN conversations[u]
    ELSE FreshRef(conversations, held)

\* Variant of Trimmed: the trim drops the newest messages, history.splice(MAX_HISTORY).
TrimmedKeepOldest(s) ==
    IF Len(s) > MAX_HISTORY THEN Splice(s, MAX_HISTORY, Len(s) - MAX_HISTORY) ELSE s

\* push, then the trim: if (history.length > MAX_HISTORY) splice(0, length - MAX).
Trimmed(s) ==
    IF Len(s) > MAX_HISTORY THEN Splice(s, 0, Len(s) - MAX_HISTORY) ELSE s

Add(u, m) ==
    /\ LET r == HistoryRef(u)
           history == IF conversations[u] # NoEntry THEN heap[r] ELSE <<>>
       IN  /\ heap' = [heap EXCEPT ![r] = Trimmed(Push(history, m))]
           /\ conversations' = [conversations EXCEPT ![u] = r]
    /\ calls' = [calls EXCEPT ![u] = @ + 1]
    /\ added' = [added EXCEPT ![u] = Append(@, m)]
    /\ lastOp' = [op |-> "add", userId |-> u, result |-> <<m>>]
    /\ UNCHANGED <<held, cleared, heldLive, nClears, nMutations>>
    /\ UNCHANGED agentVars

\* Variant of Clear: the delete misses the key (a string where the Map has numbers).
ClearWrongKey(u) ==
    /\ conversations' = conversations
    /\ heap' = Collect(heap, conversations', held)
    /\ added' = [added EXCEPT ![u] = <<>>]
    /\ cleared' = [cleared EXCEPT ![u] = TRUE]
    /\ heldLive' = [heldLive EXCEPT ![u] = FALSE]
    /\ nClears' = nClears + 1
    /\ lastOp' = [op |-> "clear", userId |-> u, result |-> <<>>]
    /\ UNCHANGED <<held, calls, nMutations>>
    /\ UNCHANGED agentVars

\* Variant of Clear: conversations.clear() instead of conversations.delete(userId).
ClearAll(u) ==
    /\ conversations' = [w \in UserIds |-> NoEntry]
    /\ heap' = Collect(heap, conversations', held)
    /\ added' = [added EXCEPT ![u] = <<>>]
    /\ cleared' = [cleared EXCEPT ![u] = TRUE]
    /\ heldLive' = [heldLive EXCEPT ![u] = FALSE]
    /\ nClears' = nClears + 1
    /\ lastOp' = [op |-> "clear", userId |-> u, result |-> <<>>]
    /\ UNCHANGED <<held, calls, nMutations>>
    /\ UNCHANGED agentVars

Clear(u) ==
    /\ conversations' = [conversations EXCEPT ![u] = NoEntry]
    /\ heap' = Collect(heap, conversations', held)
    /\ added' = [added EXCEPT ![u] = <<>>]
    /\ cleared' = [cleared EXCEPT ![u] = TRUE]
    /\ heldLive' = [heldLive EXCEPT ![u] = FALSE]
    /\ nClears' = nClears + 1
    /\ lastOp' = [op |-> "clear", userId |-> u, result |-> <<>>]
    /\ UNCHANGED <<held, calls, nMutations>>
    /\ UNCHANGED agentVars

InitStoreVars ==
    /\ conversations = [u \in UserIds |-> NoEntry]
    /\ heap = [r \in Refs |-> <<>>]
    /\ held = [u \in UserIds |-> NoEntry]
    /\ calls = [u \in UserIds |-> 0]
    /\ added = [u \in UserIds |-> <<>>]
    /\ cleared = [u \in UserIds |-> FALSE]
    /\ heldLive = [u \in UserIds |-> FALSE]
    /\ nClears = 0
    /\ nMutations = 0
    /\ lastOp = [op |-> "none", userId |-> 0, result |-> <<>>]

\* The number of add calls made so far, over all user ids.
TotalAdds == calls[1] + calls[2]


\* ------------------------------------------------- callers keeping the array
\* A message a caller pushes onto an array it got from get: not one add is given.
CallerMessage(u) == [role |-> "user", content |-> <<u, 0>>]

\* The caller mutates the array its last get(userId) returned: arr.push(message).
CallerMutate(u) ==
    /\ held[u] # NoEntry
    /\ heap' = [heap EXCEPT ![held[u]] = Push(@, CallerMessage(u))]
    /\ nMutations' = nMutations + 1
    /\ lastOp' = [op |-> "mutate", userId |-> u, result |-> <<CallerMessage(u)>>]
    /\ UNCHANGED <<conversations, held, calls, added, cleared, heldLive, nClears>>
    /\ UNCHANGED agentVars

\* The ids whose arrays callers keep; the other ids see no traffic here.
AliasUsers == {1}

\* ------------------------------------------------------------ JS values
\* A JavaScript value is a record tagged with its type.  A string is the
\* sequence of its pieces, so that concatenation and join are sequence
\* operations and not the identity.
Undefined == [t |-> "undefined"]
Null == [t |-> "null"]
Str(pieces) == [t |-> "string", v |-> pieces]
Num(number) == [t |-> "number", num |-> number]
Arr(elements) == [t |-> "array", items |-> elements]
ErrorObject(id, message) == [t |-> "Error", id |-> id, message |-> Str(message)]

\* x === undefined || x === null, as "?." uses it.
Nullish(x) == x.t \in {"undefined", "null"}

\* JavaScript truthiness, as "||" and "? :" use it.
Truthy(x) ==
    CASE x.t = "undefined" -> FALSE
      [] x.t = "null" -> FALSE
      [] x.t = "string" -> x.v # <<>>
      [] x.t = "number" -> x.num # 0
      [] OTHER -> TRUE

\* a || b
OrElse(a, b) == IF Truthy(a) THEN a ELSE b

\* String(x)
StringOf(x) ==
    CASE x.t = "string" -> x
      [] x.t = "number" -> Str(<<ToString(x.num)>>)
      [] x.t = "undefined" -> Str(<<"undefined">>)
      [] x.t = "null" -> Str(<<"null">>)
      [] OTHER -> Str(<<"[object Object]">>)

\* Variant of FilterText: find instead of filter, the first text block alone.
RECURSIVE FilterFirstText(_)
FilterFirstText(blocks) ==
    IF blocks = <<>> THEN <<>>
    ELSE IF Head(blocks).type = "text" THEN <<Head(blocks)>>
    ELSE FilterFirstText(Tail(blocks))

\* Array.prototype.filter with the predicate block.type === "text"
RECURSIVE FilterText(_)
FilterText(blocks) ==
    IF blocks = <<>> THEN <<>>
    ELSE IF Head(blocks).type = "text"
         THEN <<Head(blocks)>> \o FilterText(Tail(blocks))
         ELSE FilterText(Tail(blocks))

\* Array.prototype.map with block => block.text
MapText(blocks) == [i \in 1..Len(blocks) |-> blocks[i].text]

\* Array.prototype.join(separator) on an array of strings
RECURSIVE Join(_, _)
Join(texts, separator) ==
    IF texts = <<>> THEN <<>>
    ELSE IF Len(texts) = 1 THEN Head(texts).v
    ELSE Head(texts).v \o <<separator>> \o Join(Tail(texts), separator)

\* ------------------------------------------------------- program constants
DEFAULT_ANTHROPIC_MODEL == Str(<<"claude-sonnet-4-20250514">>)
DEFAULT_OPENAI_MODEL == Str(<<"gpt-4o">>)
DEFAULT_SYSTEM_PROMPT == Str(<<"You are a helpful AI assistant ...">>)
MAX_TOKENS == 4096

NoConfig == [ai |-> [provider |-> "", apiKey |-> "", model |-> Undefined]]
NoAgent == [provider |-> "none", model |-> Undefined, client |-> "none"]

\* ------------------------------------------------------------ createAgent
CreateAnthropicAgent(cfg) ==
    [provider |-> "anthropic",
     model |-> OrElse(cfg.ai.model, DEFAULT_ANTHROPIC_MODEL),
     client |-> "anthropic"]

CreateOpenAIAgent(cfg) ==
    [provider |-> "openai",
     model |-> OrElse(cfg.ai.model, DEFAULT_OPENAI_MODEL),
     client |-> "openai"]

\* Variant of SelectAgent: the branch tests for "openai" and defaults to Anthropic.
SelectAgentDefaultAnthropic(cfg) ==
    IF cfg.ai.provider = "openai"
    THEN CreateOpenAIAgent(cfg)
    ELSE CreateAnthropicAgent(cfg)

SelectAgent(cfg) ==
    IF cfg.ai.provider = "anthropic"
    THEN CreateAnthropicAgent(cfg)
    ELSE CreateOpenAIAgent(cfg)

CreateAgent(cfg) ==
    /\ agent = NoAgent
    /\ config' = cfg
    /\ agent' = SelectAgent(cfg)
    /\ UNCHANGED <<pc, args, reply, outcome, requests, auditLog>>
    /\ UNCHANGED storeVars

\* ------------------------------------------------------------ chat: the request
\* messages.map((m) => ({role: m.role, content: m.content}))
MapMessages(messages) ==
    [i \in 1..Len(messages) |->
        [role |-> messages[i].role, content |-> messages[i].content]]

AnthropicRequest(model, messages, systemPrompt) ==
    [model |-> model,
     messages |-> MapMessages(messages),
     max_tokens |-> MAX_TOKENS,
     system |-> OrElse(systemPrompt, DEFAULT_SYSTEM_PROMPT),
     endpoint |-> "anthropic.messages.create"]

OpenAIRequest(model, messages, systemPrompt) ==
    [model |-> model,
     messages |->
        <<[role |-> "system",
           content |-> OrElse(systemPrompt, DEFAULT_SYSTEM_PROMPT)]>>
        \o MapMessages(messages),
     max_tokens |-> MAX_TOKENS,
     system |-> Undefined,
     endpoint |-> "openai.chat.completions.create"]

\* chat up to its await: the request goes to the client the agent was built with.
ChatRequest(messages, systemPrompt) ==
    IF agent.client = "anthropic"
    THEN AnthropicRequest(agent.model, messages, systemPrompt)
    ELSE OpenAIRequest(agent.model, messages, systemPrompt)

ChatCall(c, messages, systemPrompt) ==
    /\ agent # NoAgent
    /\ pc[c] = "idle"
    /\ pc' = [pc EXCEPT ![c] = "awaiting"]
    /\ args' = [args EXCEPT ![c] = [messages |-> messages, systemPrompt |-> systemPrompt]]
    /\ requests' = Append(requests, [call |-> c, body |-> ChatRequest(messages, systemPrompt)])
    /\ UNCHANGED <<config, agent, reply, outcome, auditLog>>
    /\ UNCHANGED storeVars

\* ------------------------------------------------------------ chat: after the await
Return(x) == [kind |-> "resolved", value |-> x]
Throw(x) == [kind |-> "rejected", value |-> x]

\* The TypeError the runtime throws when a property of undefined is read; every
\* throw makes a new object (its id is that of no provider failure).
TypeErrorOf(c, what) ==
    ErrorObject(100 + c, <<"Cannot read properties of undefined: ", what>>)

\* The statements of createAnthropicAgent.chat after the await, in the try block.
AnthropicBody(c, response) ==
    IF response.content.t = "undefined" THEN Throw(TypeErrorOf(c, "filter"))
    ELSE IF response.usage.t = "undefined" THEN Throw(TypeErrorOf(c, "input_tokens"))
    ELSE Return([text |-> Str(Join(MapText(FilterText(response.content.items)), "\n")),
                 usage |-> [t |-> "object",
                            inputTokens |-> response.usage.input_tokens,
                            outputTokens |-> response.usage.output_tokens]])

\* response.choices[0]?.message?.content
FirstContent(response) ==
    IF Len(response.choices.items) = 0 THEN Undefined
    ELSE IF Nullish(response.choices.items[1].message) THEN Undefined
    ELSE response.choices.items[1].message.content

\* Variant of OpenAIBody: a missing usage object is reported as zero counts.
OpenAIBodyZeroed(c, response) ==
    IF response.choices.t = "undefined" THEN Throw(TypeErrorOf(c, "0"))
    ELSE Return([text |-> OrElse(FirstContent(response), Str(<<>>)),
                 usage |-> IF Truthy(response.usage)
                           THEN [t |-> "object",
                                 inputTokens |-> response.usage.prompt_tokens,
                                 outputTokens |-> response.usage.completion_tokens]
                           ELSE [t |-> "object", inputTokens |-> 0, outputTokens |-> 0]])

\* The statements of createOpenAIAgent.chat after the await, in the try block.
OpenAIBody(c, response) ==
    IF response.choices.t = "undefined" THEN Throw(TypeErrorOf(c, "0"))
    ELSE Return([text |-> OrElse(FirstContent(response), Str(<<>>)),
                 usage |-> IF Truthy(response.usage)
                           THEN [t |-> "object",
                                 inputTokens |-> response.usage.prompt_tokens,
                                 outputTokens |-> response.usage.completion_tokens]
                           ELSE Undefined])

\* err instanceof Error ? err.message : String(err)
ErrorText(err) == IF err.t = "Error" THEN err.message ELSE StringOf(err)

\* The template literal `<label>${text}`
AuditRecord(label, err) == [error |-> Str(<<label>> \o ErrorText(err).v)]

\* Variant of Caught: the failure is wrapped, throw new Error(text).
CaughtWrapped(label, err) ==
    [requests |-> <<>>,
     result |-> Throw(ErrorObject(0, <<label>> \o ErrorText(err).v)),
     audit |-> <<AuditRecord(label, err)>>]

\* Variant of Caught: after the audit record the call is tried once more.
CaughtRetry(label, err) ==
    [requests |-> <<[model |-> Undefined, messages |-> <<>>, max_tokens |-> MAX_TOKENS,
                     system |-> Undefined, endpoint |-> "retry"]>>,
     result |-> Throw(err),
     audit |-> <<AuditRecord(label, err)>>]

\* A catch block: one audit.error call, then throw err.  requests: the calls
\* the block makes to a provider client (none).  (Records list their fields in
\* the order TLC keeps them in.)
Caught(label, err) ==
    [requests |-> <<>>,
     result |-> Throw(err),
     audit |-> <<AuditRecord(label, err)>>]

\* The try block left without an exception: the return statement.
Returned(response) == [requests |-> <<>>, result |-> response, audit |-> <<>>]

\* createAnthropicAgent.chat from its await on: the await throws what the
\* provider call rejected with, or the try block goes on with the response.
AnthropicChat(c, settled) ==
    LET tried == IF settled.kind = "rejected" THEN settled
                 ELSE AnthropicBody(c, settled.value)
    IN  IF tried.kind = "rejected"
        THEN Caught("Anthropic API error: ", tried.value)
        ELSE Returned(tried)

\* createOpenAIAgent.chat from its await on.
OpenAIChat(c, settled) ==
    LET tried == IF settled.kind = "rejected" THEN settled
                 ELSE OpenAIBody(c, settled.value)
    IN  IF tried.kind = "rejected"
        THEN Caught("OpenAI API error: ", tried.value)
        ELSE Returned(tried)

\* The provider call of invocation c settles and chat runs to its end.
Settle(c, settled, done) ==
    /\ pc[c] = "awaiting"
    /\ reply' = [reply EXCEPT ![c] = settled]
    /\ outcome' = [outcome EXCEPT ![c] = done.result]
    /\ pc' = [pc EXCEPT ![c] = done.result.kind]
    /\ auditLog' = auditLog \o
            [i \in 1..Len(done.audit) |-> [call |-> c, record |-> done.audit[i]]]
    /\ requests' = requests \o
            [i \in 1..Len(done.requests) |-> [call |-> c, body |-> done.requests[i]]]
    /\ UNCHANGED <<config, agent, args>>
    /\ UNCHANGED storeVars

AnthropicSettle(c, settled) ==
    /\ agent.client = "anthropic"
    /\ Settle(c, settled, AnthropicChat(c, settled))

OpenAISettle(c, settled) ==
    /\ agent.client = "openai"
    /\ Settle(c, settled, OpenAIChat(c, settled))

NotStarted == [kind |-> "none", value |-> Undefined]

InitAgentVars ==
    /\ config = NoConfig
    /\ agent = NoAgent
    /\ pc = [c \in CallIds |-> "idle"]
    /\ args = [c \in CallIds |-> [messages |-> <<>>, systemPrompt |-> Undefined]]
    /\ reply = [c \in CallIds |-> NotStarted]
    /\ outcome = [c \in CallIds |-> NotStarted]
    /\ requests = <<>>
    /\ auditLog = <<>>

Init == InitStoreVars /\ InitAgentVars

\* ------------------------------------------------------------ inputs
\* config.ai.provider: the two names, a differently cased one, an unknown one.
ProviderValues == {"anthropic", "openai", "Anthropic", "gemini"}
ModelValues == {Undefined, Str(<<>>), Str(<<"custom-model">>)}
Configs ==
    {[ai |-> [provider |-> p, apiKey |-> "key", model |-> m]] :
        p \in ProviderValues, m \in ModelValues}

UserMessage == [role |-> "user", content |-> Str(<<"hi">>)]
AssistantMessage == [role |-> "assistant", content |-> Str(<<"hello">>)]
MessageLists == {<<UserMessage>>, <<UserMessage, AssistantMessage, UserMessage>>}
SystemPrompts == {Undefined, Str(<<>>), Str(<<"Be brief">>)}

\* What a provider call can reject with: an Error, and values that are none.
Failures ==
    {ErrorObject(1, <<"rate limited">>), Str(<<"boom">>), Num(429), Undefined}

TextBlock(text) == [type |-> "text", text |-> Str(text)]
ToolUseBlock == [type |-> "tool_use", name |-> "search"]
BlockValues == {TextBlock(<<"Hello">>), TextBlock(<<"World">>), TextBlock(<<>>), ToolUseBlock}

\* The content-block lists of at most MaxBlocks blocks.
BlockLists == UNION {[1..n -> BlockValues] : n \in 0..MaxBlocks}

AnthropicUsage(i, o) == [t |-> "object", input_tokens |-> i, output_tokens |-> o]
AnthropicResponse(blocks, usage) == [content |-> blocks, usage |-> usage]

AnthropicResponses ==
    {AnthropicResponse(Arr(b), u) :
        b \in BlockLists, u \in {AnthropicUsage(0, 0), AnthropicUsage(12, 34)}}
    \cup {AnthropicResponse(Undefined, AnthropicUsage(12, 34)),
          AnthropicResponse(Arr(<<TextBlock(<<"Hello">>)>>), Undefined)}

\* The response of test 4 of the spec: two text blocks and one that is none.
AnthropicSample ==
    AnthropicResponse(
        Arr(<<TextBlock(<<"Hello">>), ToolUseBlock, TextBlock(<<"World">>)>>),
        AnthropicUsage(12, 34))

Choice(message) == [message |-> message, finish_reason |-> "stop"]
ChoiceMessage(content) == [role |-> "assistant", content |-> content, t |-> "object"]
OpenAIUsage(p, c) == [t |-> "object", prompt_tokens |-> p, completion_tokens |-> c]
OpenAIResponse(choices, usage) == [usage |-> usage, choices |-> choices]

ChoiceMessages ==
    {Undefined, Null} \cup
    {ChoiceMessage(content) : content \in {Undefined, Null, Str(<<>>), Str(<<"Hi">>)}}

ChoiceLists ==
    {<<>>} \cup {<<Choice(m)>> : m \in ChoiceMessages}
    \cup {<<Choice(m), Choice(ChoiceMessage(Str(<<"Other">>)))>> : m \in ChoiceMessages}

OpenAIResponses ==
    {OpenAIResponse(Arr(ch), u) :
        ch \in ChoiceLists,
        u \in {Undefined, Null, OpenAIUsage(0, 0), OpenAIUsage(5, 7)}}
    \cup {OpenAIResponse(Undefined, OpenAIUsage(5, 7))}

\* The response of test 5 of the spec: content "Hi" and no usage.
OpenAISample ==
    OpenAIResponse(Arr(<<Choice(ChoiceMessage(Str(<<"Hi">>)))>>), Undefined)

\* ------------------------------------------------------------ specifications
\* The store under any order of get, add and clear calls for two user ids.
NextStore ==
    \/ \E u \in UserIds : GetCall(u, FALSE)
    \/ \E u \in UserIds : TotalAdds < MaxAdds /\ Add(u, NextMessage(u))
    \/ \E u \in UserIds : nClears < MaxClears /\ Clear(u)

SpecStore == Init /\ [][NextStore]_vars

\* The store with a caller that keeps the arrays get returns and mutates them.
NextAlias ==
    \/ \E u \in AliasUsers, keep \in BOOLEAN : GetCall(u, keep)
    \/ \E u \in AliasUsers : TotalAdds < MaxAdds /\ Add(u, NextMessage(u))
    \/ \E u \in AliasUsers : nClears < MaxAliasClears /\ Clear(u)
    \/ \E u \in AliasUsers : nMutations < MaxMutations /\ CallerMutate(u)

SpecAlias == Init /\ [][NextAlias]_vars

\* Two chat invocations on one agent, which can be in flight together.
NextAgent ==
    \/ \E cfg \in Configs : CreateAgent(cfg)
    \/ \E c \in CallIds, m \in MessageLists, sp \in SystemPrompts : ChatCall(c, m, sp)
    \/ \E c \in CallIds : AnthropicSettle(c, Return(AnthropicSample))
    \/ \E c \in CallIds, e \in Failures : AnthropicSettle(c, Throw(e))
    \/ \E c \in CallIds : OpenAISettle(c, Return(OpenAISample))
    \/ \E c \in CallIds, e \in Failures : OpenAISettle(c, Throw(e))

SpecAgent == Init /\ [][NextAgent]_vars

\* One chat invocation, over every shape of response.
NextShapes ==
    \/ \E cfg \in Configs : CreateAgent(cfg)
    \/ \E m \in MessageLists, sp \in SystemPrompts : ChatCall(1, m, sp)
    \/ \E r \in AnthropicResponses : AnthropicSettle(1, Return(r))
    \/ \E e \in Failures : AnthropicSettle(1, Throw(e))
    \/ \E r \in OpenAIResponses : OpenAISettle(1, Return(r))
    \/ \E e \in Failures : OpenAISettle(1, Throw(e))

SpecShapes == Init /\ [][NextShapes]_vars

\* ------------------------------------------------------------ properties: the store
\* C1: for a user id that only add calls were made for (no clear), after the k-th
\* add the sequence get returns has length min(k, MAX_HISTORY) and is the last
\* min(k, MAX_HISTORY) messages added, in insertion order; a get call returns
\* exactly that sequence.
C1_SlidingWindow ==
    \A u \in UserIds :
        ~cleared[u] =>
            /\ Len(added[u]) = calls[u]
            /\ Len(Get(u)) = Min(calls[u], MAX_HISTORY)
            /\ Len(Get(u)) <= MAX_HISTORY
            /\ \A i \in 1..Len(Get(u)) :
                   Get(u)[i] = added[u][calls[u] - Len(Get(u)) + i]
            /\ (lastOp.op = "get" /\ lastOp.userId = u => lastOp.result = Get(u))

\* C1 witness: more than MAX_HISTORY adds for an id never cleared, then a get.
C1_Witness ==
    /\ ~cleared[1]
    /\ calls[1] = MAX_HISTORY + 2
    /\ lastOp.op = "get" /\ lastOp.userId = 1
    /\ Len(lastOp.result) = MAX_HISTORY

\* C2: get returns the empty sequence for an id never added to and for an id
\* cleared and not added to since; an id has an entry exactly from an add until
\* the next clear of that id.
C2_EmptyUntilAdd ==
    \A u \in UserIds :
        /\ added[u] = <<>> => Get(u) = <<>> /\ conversations[u] = NoEntry
        /\ added[u] # <<>> => conversations[u] # NoEntry /\ Get(u) # <<>>
        /\ (lastOp.op = "get" /\ lastOp.userId = u /\ added[u] = <<>>
               => lastOp.result = <<>>)
        /\ (lastOp.op = "clear" /\ lastOp.userId = u => Get(u) = <<>>)

\* C2 witness: adds, then a clear, then a get of that id, which returns nothing.
C2_Witness ==
    /\ cleared[1] /\ calls[1] > 0 /\ added[1] = <<>>
    /\ lastOp.op = "get" /\ lastOp.userId = 1 /\ lastOp.result = <<>>
    /\ added[2] # <<>>

\* C9: whatever the order in which the add, get and clear calls of the handlers
\* run, each add being one step, the stored sequence of every id is the last
\* MAX_HISTORY messages added to it since its last clear, in the order of the adds.
C9_NoLostAdd ==
    \A u \in UserIds :
        /\ Get(u) = LastN(added[u], MAX_HISTORY)
        /\ (lastOp.op = "add" /\ lastOp.userId = u
               => Get(u) # <<>> /\ Get(u)[Len(Get(u))] = lastOp.result[1])

\* C9 witness: adds for both ids, a clear in between, and more than MAX_HISTORY
\* adds for one id since its clear.
C9_Witness ==
    /\ cleared[1] /\ Len(added[1]) > MAX_HISTORY
    /\ calls[2] > 0
    /\ lastOp.op = "add"

\* C10: add(u, m) and clear(u) leave what get(v) returns, and the entry of v,
\* as they were for every other id v; get changes the stored sequence of no id.
C10_Frame ==
    [][\A v \in UserIds :
          /\ (lastOp'.op \in {"add", "clear"} /\ lastOp'.userId # v
                 => Get(v)' = Get(v) /\ conversations'[v] = conversations[v])
          /\ (lastOp'.op = "get"
                 => Get(v)' = Get(v) /\ conversations'[v] = conversations[v])]_vars

\* C10 witness: the history of id 1 is trimmed while id 2 has a message stored.
C10_Witness ==
    /\ lastOp.op = "add" /\ lastOp.userId = 1
    /\ calls[1] > MAX_HISTORY /\ ~cleared[1]
    /\ Len(Get(2)) = 1

\* ------------------------------------------------------------ properties: kept arrays
LastOf(s) == s[Len(s)]

\* C8 as stated: whenever the caller holds a sequence an earlier get(userId)
\* returned, a message add(userId, .) appends is visible through it, and a
\* mutation made to it is seen by get(userId).
C8_AlwaysLive ==
    \A u \in AliasUsers :
        held[u] # NoEntry /\ lastOp.userId = u =>
            /\ (lastOp.op = "add"
                   => heap[held[u]] # <<>> /\ LastOf(heap[held[u]]) = lastOp.result[1])
            /\ (lastOp.op = "mutate"
                   => Get(u) # <<>> /\ LastOf(Get(u)) = lastOp.result[1])

\* C8 amended: a sequence get(userId) returned while the id had an entry, the id
\* not cleared since, is the stored array itself: an add is visible through it
\* and a mutation of it is seen by get.
C8_LiveWhileEntry ==
    \A u \in AliasUsers :
        heldLive[u] =>
            /\ held[u] # NoEntry
            /\ held[u] = conversations[u]
            /\ heap[held[u]] = Get(u)
            /\ (lastOp.userId = u /\ lastOp.op \in {"add", "mutate"}
                   => LastOf(heap[held[u]]) = lastOp.result[1]
                      /\ LastOf(Get(u)) = lastOp.result[1])

\* C8 witness: the caller mutated the array it holds, and an add that trims
\* has since worked on the same array.
C8_Witness ==
    /\ heldLive[1] /\ nMutations > 0
    /\ lastOp.op = "add" /\ lastOp.userId = 1
    /\ Len(added[1]) > MAX_HISTORY


\* ------------------------------------------------------------ properties: the agent
Done(c) == pc[c] \in {"resolved", "rejected"}

\* The records audit.error received during invocation c, in order.
AuditOf(c) == SelectSeq(auditLog, LAMBDA a : a.call = c)

\* The requests invocation c sent, in order.
RequestsOf(c) == SelectSeq(requests, LAMBDA r : r.call = c)

\* The name a provider goes by at the head of its audit records.
NameOf(provider) == IF provider = "anthropic" THEN "Anthropic" ELSE "OpenAI"

\* The text of a failure: the message of an Error, the printed value otherwise.
TextOf(failure) ==
    IF failure = ErrorObject(1, <<"rate limited">>) THEN <<"rate limited">>
    ELSE IF failure = Str(<<"boom">>) THEN <<"boom">>
    ELSE IF failure = Num(429) THEN <<"429">>
    ELSE <<"undefined">>

\* C3: when the provider call of a chat invocation fails, audit.error receives
\* exactly one record for it, made of the provider's name and the text of the
\* failure, and chat rejects with that very failure value; an invocation that
\* resolves wrote no audit record.
C3_AuditOnceAndRethrow ==
    \A c \in CallIds :
        /\ reply[c].kind = "rejected" =>
              /\ pc[c] = "rejected"
              /\ outcome[c] = [kind |-> "rejected", value |-> reply[c].value]
              /\ Len(AuditOf(c)) = 1
              /\ AuditOf(c)[1].record =
                    [error |-> Str(<<NameOf(agent.provider) \o " API error: ">>
                                   \o TextOf(reply[c].value))]
        /\ pc[c] = "resolved" => AuditOf(c) = <<>>
        /\ pc[c] \in {"idle", "awaiting"} => AuditOf(c) = <<>>

\* C3 witness: on one agent an invocation failed with an Error and another one
\* with a value that is no Error, each with its audit record.
C3_Witness ==
    /\ agent.provider = "anthropic"
    /\ reply[1] = Throw(ErrorObject(1, <<"rate limited">>))
    /\ reply[2] = Throw(Num(429))
    /\ Len(auditLog) = 2

\* The endpoint of the provider an agent is tagged with.
EndpointOf(provider) ==
    IF provider = "anthropic" THEN "anthropic.messages.create"
    ELSE "openai.chat.completions.create"

\* C4: every chat invocation sends exactly one request, to the provider the agent
\* was built with and made of its own arguments; once the provider call settled
\* the invocation is over, resolved or rejected, with no further request; and two
\* invocations whose provider calls settled alike end alike.
C4_OneRoundTrip ==
    /\ \A c \in CallIds :
          /\ pc[c] = "idle" => RequestsOf(c) = <<>> /\ reply[c].kind = "none"
          /\ pc[c] # "idle" =>
                /\ Len(RequestsOf(c)) = 1
                /\ RequestsOf(c)[1].body.endpoint = EndpointOf(agent.provider)
                /\ LET sent == RequestsOf(c)[1].body.messages
                   IN  args[c].messages =
                           (IF agent.provider = "anthropic" THEN sent ELSE Tail(sent))
          /\ pc[c] = "awaiting" => reply[c].kind = "none" /\ outcome[c].kind = "none"
          /\ Done(c) => reply[c].kind # "none" /\ outcome[c].kind = pc[c]
          /\ reply[c].kind = "rejected" => pc[c] = "rejected"
    /\ \A c, d \in CallIds :
          Done(c) /\ Done(d) /\ reply[c] = reply[d] => outcome[c] = outcome[d]

\* C4 witness: one invocation ended rejected and the other, started after that
\* failure, resolved; two requests were sent in all.
C4_Witness ==
    /\ pc[1] = "rejected" /\ pc[2] = "resolved"
    /\ Len(requests) = 2 /\ requests[2].call = 2
    /\ Len(auditLog) = 1

\* C5: the agent is tagged "anthropic" exactly when config.ai.provider is
\* "anthropic" and "openai" for every other value; every request of its chat
\* invocations goes to the provider of the tag.
C5_ProviderSelection ==
    agent # NoAgent =>
        /\ agent.provider = (IF config.ai.provider = "anthropic"
                             THEN "anthropic" ELSE "openai")
        /\ agent.client = agent.provider
        /\ \A i \in 1..Len(requests) :
               requests[i].body.endpoint = EndpointOf(agent.provider)
        /\ \A i \in 1..Len(auditLog) :
               Head(auditLog[i].record.error.v) = NameOf(agent.provider) \o " API error: "

\* C5 witness: an unrecognized provider value, and a chat invocation that went
\* to OpenAI and resolved.
C5_Witness ==
    /\ config.ai.provider = "gemini"
    /\ agent.provider = "openai"
    /\ pc[1] = "resolved"
    /\ requests[1].body.endpoint = "openai.chat.completions.create"

\* The texts of the text blocks among the first n blocks, each followed by a newline.
RECURSIVE TextLines(_, _)
TextLines(blocks, n) ==
    IF n = 0 THEN <<>>
    ELSE TextLines(blocks, n - 1) \o
         (IF blocks[n].type = "text" THEN blocks[n].text.v \o <<"\n">> ELSE <<>>)

\* s without its last element (<<>> when s is empty).
Front(s) == SubSeq(s, 1, Len(s) - 1)

\* C6: on the Anthropic path the text chat resolves with is the texts of the
\* text blocks of the response, in their order, with a newline between one and
\* the next (the empty string when there is no text block), and usage is the
\* provider's input and output token counts.
C6_AnthropicText ==
    agent.client = "anthropic" /\ reply[1].kind = "resolved"
    /\ reply[1].value.content.t = "array" /\ reply[1].value.usage.t = "object" =>
        LET blocks == reply[1].value.content.items
        IN  /\ pc[1] = "resolved"
            /\ outcome[1].value.text = Str(Front(TextLines(blocks, Len(blocks))))
            /\ ((\A i \in 1..Len(blocks) : blocks[i].type # "text")
                   => outcome[1].value.text = Str(<<>>))
            /\ outcome[1].value.usage.inputTokens = reply[1].value.usage.input_tokens
            /\ outcome[1].value.usage.outputTokens = reply[1].value.usage.output_tokens

\* C6 witness: two text blocks around one that is none give "Hello\nWorld".
C6_Witness ==
    /\ reply[1] = Return(AnthropicSample)
    /\ pc[1] = "resolved"
    /\ outcome[1].value.text = Str(<<"Hello", "\n", "World">>)
    /\ outcome[1].value.usage.inputTokens = 12

\* C7: on the OpenAI path the text chat resolves with is the content of the
\* message of the first choice, the empty string when there is no first choice,
\* no message or no content; usage is there, with the prompt and completion
\* token counts, exactly when the response has a usage object, and undefined
\* otherwise.
C7_OpenAIText ==
    agent.client = "openai" /\ reply[1].kind = "resolved"
    /\ reply[1].value.choices.t = "array" =>
        LET choices == reply[1].value.choices.items
            usage == reply[1].value.usage
            hasContent == /\ choices # <<>>
                          /\ choices[1].message.t = "object"
                          /\ choices[1].message.content.t = "string"
        IN  /\ pc[1] = "resolved"
            /\ outcome[1].value.text =
                   (IF hasContent THEN choices[1].message.content ELSE Str(<<>>))
            /\ (usage.t = "object") = (outcome[1].value.usage.t = "object")
            /\ (usage.t # "object" => outcome[1].value.usage = Undefined)
            /\ (usage.t = "object" =>
                   /\ outcome[1].value.usage.inputTokens = usage.prompt_tokens
                   /\ outcome[1].value.usage.outputTokens = usage.completion_tokens)

\* C7 witness: content "Hi" and no usage give text "Hi" and usage undefined.
C7_Witness ==
    /\ reply[1] = Return(OpenAISample)
    /\ pc[1] = "resolved"
    /\ outcome[1].value = [text |-> Str(<<"Hi">>), usage |-> Undefined]

====
